---- MODULE Spec2Model ----
(***************************************************************************)
(* HintQA demo notebook (src/Code/demo.ipynb): the hint-conditioned        *)
(* few-shot answering loop.  generate_prompt, generate_shots, rag,         *)
(* print_result_table and the __main__ block are modelled; the dataset and *)
(* hint collaborators are upstream and only their output (the instances)   *)
(* appears here.                                                           *)
(***************************************************************************)
EXTENDS Integers, Sequences, FiniteSets, TLC

\* ------------------------------------------------------------------ bounds
\* Largest instance pool the evaluation loop is run over.
MaxPool == 5

\* Largest instance pool generate_shots is called on by itself.
MaxShotPool == 4

\* The generator's states are 0..RngModulus-1.
RngModulus == 64

\* The states 0..MaxEntropy are those a fresh process may find its generator in.
MaxEntropy == 2

\* ------------------------------------------------------ program constants
\* rag passes the literal 5 to generate_shots (also its default).
NumShots == 5

\* --------------------------------------------------------------- values
None == "None"

system_prompt ==
    "You are a precise answering assistant. Always provide the shortest possible answer to factoid questions. Avoid explanations or additional details."

\* ---------------------------------------------------------------- state
VARIABLES
    dataset,            \* dataset['entire'].get_instances(): the instance pool
    pc,                 \* position of the running code
    idx,                \* position in the pool of rag's loop variable `instance`
    messages,           \* rag's local `messages`
    instance_answer,    \* rag's local `instance_answer`
    answer,             \* rag's local `answer` (the endpoint's response)
    predicted_answer,   \* rag's local `predicted_answer`
    predicted_answers,  \* rag's list of predictions
    ground_truths,      \* rag's list of ground truths
    calls,              \* the chat.completions.create calls made: target position, outcome
    error,              \* the exception that ended the program, or None
    table,              \* the PrettyTable print_result_table printed
    num_of_shots,       \* generate_shots' parameter
    example_shots,      \* generate_shots' local: what random.sample did
    examples,           \* how the generate_shots call ended
    rng,                \* state of the random module's generator
    run,                \* which execution of the program this is (1 or 2)
    script,             \* what the endpoint answers to the call for each instance
    log,                \* this execution's samples drawn and message sequences sent
    first               \* what the first execution drew, sent and ended with

rag_vars == <<pc, idx, messages, instance_answer, answer, predicted_answer,
              predicted_answers, ground_truths, calls, error, table>>

shots_vars == <<num_of_shots, example_shots, examples>>

seed_vars == <<rng, run, script, log, first>>

vars == <<dataset, rag_vars, shots_vars, seed_vars>>

\* ------------------------------------------------------------ the pool
\* Instances as the upstream collaborators hand them over: a question, the
\* candidate answers and the hints.  The first two are the instances of the
\* end-to-end scenario; later ones carry two candidate answers and one or two
\* hints.
InstanceA ==
    [question |-> "Capital of France?",
     answers  |-> <<"Paris">>,
     hints    |-> <<"Paris is the capital of France.">>]

InstanceB ==
    [question |-> "Year WWII ended?",
     answers  |-> <<"1945">>,
     hints    |-> <<>>]

InstanceAt(i) ==
    IF i = 1 THEN InstanceA
    ELSE IF i = 2 THEN InstanceB
    ELSE [question |-> "Question " \o ToString(i) \o "?",
          answers  |-> <<"Answer " \o ToString(i), "Alias " \o ToString(i)>>,
          hints    |-> IF i % 2 = 1
                       THEN <<"First hint " \o ToString(i), "Second hint " \o ToString(i)>>
                       ELSE <<"Only hint " \o ToString(i)>>]

\* A pool of n instances; the instance at position `bare` (if any) has no
\* candidate answer.
PoolOf(n, bare) ==
    [i \in 1..n |-> IF i = bare
                    THEN [InstanceAt(i) EXCEPT !.answers = <<>>]
                    ELSE InstanceAt(i)]

Pools == {PoolOf(n, bare) : n \in 0..MaxPool, bare \in 0..MaxPool}

\* ------------------------------------------------------ generate_prompt
generate_prompt(question, context) ==
    "Based on the context, answer the following question:\n    Context:\n    "
        \o context
        \o "\n\n    Question:\n    "
        \o question
        \o "\n\n    Answer:\n    "

\* '\n'.join(strings)
RECURSIVE Join(_)
Join(strings) ==
    IF Len(strings) = 0 THEN ""
    ELSE IF Len(strings) = 1 THEN strings[1]
    ELSE strings[1] \o "\n" \o Join(Tail(strings))

\* ------------------------------------------------------- random.sample
\* The k-length sequences of pairwise distinct positions of a population of n.
RECURSIVE KPermutations(_, _)
KPermutations(n, k) ==
    IF k = 0 THEN {<<>>}
    ELSE UNION {{Append(s, p) : p \in (1..n) \ {s[j] : j \in 1..Len(s)}} :
                s \in KPermutations(n, k - 1)}

ValueError == "ValueError"
IndexError == "IndexError"
AttributeError == "AttributeError"
APIError == "APIError"

\* How a call ends: with an exception let through, or with a value.
Raise(exception) == [raised |-> exception, value |-> <<>>]
Return(value) == [raised |-> None, value |-> value]

\* A variant of RandomSample that selects with replacement (random.choices).
RandomSampleChoices(n, k) ==
    IF k < 0 \/ k > n THEN {Raise(ValueError)}
    ELSE {Return(s) : s \in [1..k -> 1..n]}

\* A variant of RandomSample that clamps k to the population instead of raising.
RandomSampleClamped(n, k) ==
    {Return(s) : s \in KPermutations(n, IF k > n THEN n ELSE IF k < 0 THEN 0 ELSE k)}

\* What random.sample(population, k) can do on a population of n: raise
\* ValueError when k is negative or exceeds n, else return k positions in
\* selection order.
RandomSample(n, k) ==
    IF k < 0 \/ k > n THEN {Raise(ValueError)}
    ELSE {Return(s) : s \in KPermutations(n, k)}

\* A variant of RagSamples for a call that asks for no exemplars.
RagSamplesZeroShot == [n \in 0..MaxPool |-> RandomSample(n, 0)]

\* What random.sample draws for rag's fixed shot count, per pool size.
RagSamples == [n \in 0..MaxPool |-> RandomSample(n, NumShots)]

\* ------------------------------------------------------- generate_shots
\* A variant of ExampleMessages that appends the assistant message first.
ExampleMessagesAnswerFirst(example) ==
    <<[role |-> "assistant", content |-> example.answers[1]],
      [role |-> "user",
       content |-> generate_prompt(example.question, Join(example.hints))]>>

\* A variant of ExampleMessages that leaves out the assistant message.
ExampleMessagesUserOnly(example) ==
    <<[role |-> "user",
       content |-> generate_prompt(example.question, Join(example.hints))]>>

\* The loop body of generate_shots for one sampled instance: the user message
\* with the rendered prompt, then the assistant message with answers[0].
ExampleMessages(example) ==
    <<[role |-> "user",
       content |-> generate_prompt(example.question, Join(example.hints))],
      [role |-> "assistant", content |-> example.answers[1]]>>

\* A variant of Examples that puts each new pair in front of the list.
RECURSIVE ExamplesPrepending(_, _)
ExamplesPrepending(instances, sampled) ==
    IF Len(sampled) = 0 THEN <<>>
    ELSE ExamplesPrepending(instances, Tail(sampled))
             \o ExampleMessages(instances[Head(sampled)])

RECURSIVE Examples(_, _)
Examples(instances, sampled) ==
    IF Len(sampled) = 0 THEN <<>>
    ELSE ExampleMessages(instances[Head(sampled)])
             \o Examples(instances, Tail(sampled))

\* A variant of generate_shots that passes over a sampled instance without a
\* candidate answer instead of raising.
generate_shots_skipping(instances, drawn) ==
    IF drawn.raised # None THEN Raise(drawn.raised)
    ELSE Return(Examples(instances,
                         SelectSeq(drawn.value,
                                   LAMBDA p : Len(instances[p].answers) > 0)))

\* generate_shots(dataset, num_of_shots) when random.sample does `drawn`
\* (raises ValueError or returns the sampled positions): the exception it lets
\* through, or the list it returns.  example.answers[0] raises IndexError for
\* the first sampled instance without a candidate answer.
generate_shots(instances, drawn) ==
    IF drawn.raised # None THEN Raise(drawn.raised)
    ELSE IF \E j \in 1..Len(drawn.value) : Len(instances[drawn.value[j]].answers) = 0
         THEN Raise(IndexError)
         ELSE Return(Examples(instances, drawn.value))

\* ------------------------------------------------ the completion endpoint
\* Raw completion texts, as pieces: whitespace pieces and word pieces.
Whitespace == {" ", "\n"}

\* A choice of a response: its message's content, or no content (None).
Choice(pieces) == [is_none |-> FALSE, content |-> pieces]
NoContent == [is_none |-> TRUE, content |-> <<>>]

\* The responses of chat.completions.create, each the list of its choices.
Responses ==
    {<<>>,
     <<NoContent>>,
     <<Choice(<<" ", "Marie", " ", "Curie", "\n">>)>>,
     <<Choice(<<"1945">>), Choice(<<" ", "Marie", " ", "Curie", "\n">>)>>}

\* What the call can do: raise (network, auth, rate limit) or respond.
CreateOutcomes == {Raise(APIError)} \cup {Return(r) : r \in Responses}

\* str.strip(): leading and trailing whitespace removed, the rest kept.
RECURSIVE LStrip(_)
LStrip(pieces) ==
    IF Len(pieces) > 0 /\ Head(pieces) \in Whitespace THEN LStrip(Tail(pieces))
    ELSE pieces

RECURSIVE RStrip(_)
RStrip(pieces) ==
    IF Len(pieces) > 0 /\ pieces[Len(pieces)] \in Whitespace
    THEN RStrip(SubSeq(pieces, 1, Len(pieces) - 1))
    ELSE pieces

RECURSIVE Text(_)
Text(pieces) == IF Len(pieces) = 0 THEN "" ELSE Head(pieces) \o Text(Tail(pieces))

strip(pieces) == Text(RStrip(LStrip(pieces)))

\* A variant of ExtractAnswer that reads the last choice instead of the first.
ExtractAnswerLastChoice(response) ==
    IF Len(response) = 0 THEN Raise(IndexError)
    ELSE IF response[Len(response)].is_none THEN Raise(AttributeError)
    ELSE Return(strip(response[Len(response)].content))

\* answer.choices[0].message.content.strip()
ExtractAnswer(response) ==
    IF Len(response) = 0 THEN Raise(IndexError)
    ELSE IF response[1].is_none THEN Raise(AttributeError)
    ELSE Return(strip(response[1].content))

\* ------------------------------------------------------------------ rag
\* The state when rag reaches its loop: both lists empty, nothing sent.
Init ==
    /\ dataset \in Pools
    /\ pc = "loop"
    /\ idx = 0
    /\ messages = <<>>
    /\ instance_answer = None
    /\ answer = <<>>
    /\ predicted_answer = None
    /\ predicted_answers = <<>>
    /\ ground_truths = <<>>
    /\ calls = <<>>
    /\ error = None
    /\ table = None
    /\ num_of_shots = NumShots
    /\ example_shots = None
    /\ examples = None
    /\ rng = 0
    /\ run = 1
    /\ script = <<>>
    /\ log = [draws |-> <<>>, sent |-> <<>>]
    /\ first = None

\* A variant of Abort that notes the exception and goes on with the next instance.
AbortSkip(exception) ==
    /\ pc' = "loop"
    /\ error' = exception

\* An uncaught exception leaves rag, pipeline and the program.
Abort(exception) ==
    /\ pc' = "failed"
    /\ error' = exception

\* A variant of RagNext that moves on before the ground truth is appended.
RagNextEarly ==
    /\ pc \in {"loop", "append_ground"}
    /\ idx < Len(dataset)
    /\ idx' = idx + 1
    /\ pc' = "shots"
    /\ UNCHANGED <<dataset, messages, instance_answer, answer, predicted_answer,
                   predicted_answers, ground_truths, calls, error, table, shots_vars, seed_vars>>

\* for instance in dataset['entire'].get_instances(): the next instance.
RagNext ==
    /\ pc = "loop"
    /\ idx < Len(dataset)
    /\ idx' = idx + 1
    /\ pc' = "shots"
    /\ UNCHANGED <<dataset, messages, instance_answer, answer, predicted_answer,
                   predicted_answers, ground_truths, calls, error, table, shots_vars, seed_vars>>

\* messages = [system]; example_shots = generate_shots(dataset, 5);
\* messages.extend(example_shots), with random.sample doing `drawn`.
RagShots(drawn) ==
    /\ pc = "shots"
    /\ LET shots == generate_shots(dataset, drawn)
           system == <<[role |-> "system", content |-> system_prompt]>>
       IN IF shots.raised # None
          THEN /\ messages' = system
               /\ Abort(shots.raised)
          ELSE /\ messages' = system \o shots.value
               /\ pc' = "prompt"
               /\ UNCHANGED error
    /\ UNCHANGED <<dataset, idx, instance_answer, answer, predicted_answer,
                   predicted_answers, ground_truths, calls, table, shots_vars>>

\* instance_answer = instance.answers[0].answer; the target's prompt is
\* appended as the last user message.
RagPrompt ==
    /\ pc = "prompt"
    /\ LET instance == dataset[idx]
           prompt == generate_prompt(instance.question, Join(instance.hints))
       IN IF Len(instance.answers) = 0
          THEN /\ Abort(IndexError)
               /\ UNCHANGED <<messages, instance_answer>>
          ELSE /\ instance_answer' = instance.answers[1]
               /\ messages' = Append(messages, [role |-> "user", content |-> prompt])
               /\ pc' = "create"
               /\ UNCHANGED error
    /\ UNCHANGED <<dataset, idx, answer, predicted_answer, predicted_answers,
                   ground_truths, calls, table, shots_vars, seed_vars>>

\* answer = pipeline.chat.completions.create(model=model_name, messages=messages),
\* the endpoint doing `outcome`.
RagCreate(outcome) ==
    /\ pc = "create"
    /\ calls' = Append(calls, [target |-> idx, outcome |-> outcome])
    /\ IF outcome.raised # None
       THEN /\ Abort(outcome.raised)
            /\ UNCHANGED answer
       ELSE /\ answer' = outcome.value
            /\ pc' = "extract"
            /\ UNCHANGED error
    /\ UNCHANGED <<dataset, idx, messages, instance_answer, predicted_answer,
                   predicted_answers, ground_truths, table, shots_vars>>

\* predicted_answer = answer.choices[0].message.content.strip()
RagExtract ==
    /\ pc = "extract"
    /\ LET content == ExtractAnswer(answer)
       IN IF content.raised # None
          THEN /\ Abort(content.raised)
               /\ UNCHANGED predicted_answer
          ELSE /\ predicted_answer' = content.value
               /\ pc' = "append_predicted"
               /\ UNCHANGED error
    /\ UNCHANGED <<dataset, idx, messages, instance_answer, answer,
                   predicted_answers, ground_truths, calls, table, shots_vars, seed_vars>>

\* predicted_answers.append(predicted_answer)
RagAppendPredicted ==
    /\ pc = "append_predicted"
    /\ predicted_answers' = Append(predicted_answers, predicted_answer)
    /\ pc' = "append_ground"
    /\ UNCHANGED <<dataset, idx, messages, instance_answer, answer, predicted_answer,
                   ground_truths, calls, error, table, shots_vars, seed_vars>>

\* A variant of RagAppendGround that appends the instance's last candidate answer.
RagAppendGroundLast ==
    /\ pc = "append_ground"
    /\ ground_truths' = Append(ground_truths,
                               dataset[idx].answers[Len(dataset[idx].answers)])
    /\ pc' = "loop"
    /\ messages' = <<>>
    /\ instance_answer' = None
    /\ answer' = <<>>
    /\ predicted_answer' = None
    /\ UNCHANGED <<dataset, idx, predicted_answers, calls, error, table, shots_vars, seed_vars>>

\* ground_truths.append(instance_answer), the last statement of the loop body.
\* The body's locals are dead from here on (the next iteration assigns each
\* of them before it reads it, and nothing after the loop reads them), so
\* the model forgets their values.
RagAppendGround ==
    /\ pc = "append_ground"
    /\ ground_truths' = Append(ground_truths, instance_answer)
    /\ pc' = "loop"
    /\ messages' = <<>>
    /\ instance_answer' = None
    /\ answer' = <<>>
    /\ predicted_answer' = None
    /\ UNCHANGED <<dataset, idx, predicted_answers, calls, error, table, shots_vars, seed_vars>>

\* return predicted_answers, ground_truths: the loop is exhausted.
RagReturn ==
    /\ pc = "loop"
    /\ idx = Len(dataset)
    /\ pc' = "print"
    /\ UNCHANGED <<dataset, idx, messages, instance_answer, answer, predicted_answer,
                   predicted_answers, ground_truths, calls, error, table, shots_vars, seed_vars>>

\* --------------------------------------------------- print_result_table
\* A variant of zip that stops one pair early.
RECURSIVE zipShort(_, _)
zipShort(xs, ys) ==
    IF Len(xs) <= 1 \/ Len(ys) <= 1 THEN <<>>
    ELSE <<<<Head(xs), Head(ys)>>>> \o zipShort(Tail(xs), Tail(ys))

\* zip(predicted_answers, correct_answers): pairs up to the shorter list.
RECURSIVE zip(_, _)
zip(xs, ys) ==
    IF Len(xs) = 0 \/ Len(ys) = 0 THEN <<>>
    ELSE <<<<Head(xs), Head(ys)>>>> \o zip(Tail(xs), Tail(ys))

\* PrettyTable(['Predicted', 'Ground Truth']) with one add_row per pair.
ResultTable(predicted, correct) ==
    [field_names |-> <<"Predicted", "Ground Truth">>,
     rows |-> zip(predicted, correct)]

\* pipeline: print_result_table(predicted_answers, ground_truths)
PrintResultTable ==
    /\ pc = "print"
    /\ table' = ResultTable(predicted_answers, ground_truths)
    /\ pc' = "done"
    /\ UNCHANGED <<dataset, idx, messages, instance_answer, answer, predicted_answer,
                   predicted_answers, ground_truths, calls, error, shots_vars, seed_vars>>

\* ------------------------------------------------------- specification
\* random.sample may draw any sample; the endpoint may end any way.
Sample ==
    /\ pc = "shots"
    /\ \E drawn \in RagSamples[Len(dataset)] : RagShots(drawn)
    /\ UNCHANGED seed_vars

Create ==
    /\ pc = "create"
    /\ \E outcome \in CreateOutcomes : RagCreate(outcome)
    /\ UNCHANGED seed_vars

Next ==
    \/ RagNext
    \/ Sample
    \/ RagPrompt
    \/ Create
    \/ RagExtract
    \/ RagAppendPredicted
    \/ RagAppendGround
    \/ RagReturn
    \/ PrintResultTable

Spec == Init /\ [][Next]_vars

\* ------------------------------------------- generate_shots, by itself
\* An instance without a candidate answer.
InstanceBare == [InstanceB EXCEPT !.answers = <<>>]

ShotInstances == {InstanceA, InstanceB, InstanceAt(3), InstanceBare}

ShotPools == UNION {[1..n -> ShotInstances] : n \in 0..MaxShotPool}

\* A call generate_shots(dataset, num_of_shots) about to be made, on any pool
\* and with any count, one beyond the pool's size and a negative one included.
InitShots ==
    /\ dataset \in ShotPools
    /\ num_of_shots \in -1..(MaxShotPool + 1)
    /\ example_shots = None
    /\ examples = None
    /\ pc = "generate_shots"
    /\ idx = 0
    /\ messages = <<>>
    /\ instance_answer = None
    /\ answer = <<>>
    /\ predicted_answer = None
    /\ predicted_answers = <<>>
    /\ ground_truths = <<>>
    /\ calls = <<>>
    /\ error = None
    /\ table = None
    /\ rng = 0
    /\ run = 1
    /\ script = <<>>
    /\ log = [draws |-> <<>>, sent |-> <<>>]
    /\ first = None

\* The call, with random.sample doing `drawn`.
GenerateShotsDrawing(drawn) ==
    /\ pc = "generate_shots"
    /\ example_shots' = drawn
    /\ examples' = generate_shots(dataset, drawn)
    /\ pc' = "returned"
    /\ UNCHANGED <<dataset, num_of_shots, idx, messages, instance_answer, answer,
                   predicted_answer, predicted_answers, ground_truths, calls, error,
                   table, seed_vars>>

GenerateShots ==
    /\ pc = "generate_shots"
    /\ \E drawn \in RandomSample(Len(dataset), num_of_shots) : GenerateShotsDrawing(drawn)

NextShots == GenerateShots

SpecShots == InitShots /\ [][NextShots]_vars

\* ------------------------------------------------ the seeded program, twice
\* The random module's generator: a deterministic function of its state,
\* here a linear congruential step standing for the Mersenne Twister.
RngStep(state) == (5 * state + 3) % RngModulus

\* random.seed(a): the state is a function of a alone.
Seed(a) == a % RngModulus

\* random.sample's selection loop: k times, j = randbelow(n - i),
\* result[i] = pool[j], pool[j] = pool[n - i - 1].
RECURSIVE Select(_, _, _)
Select(state, pool, k) ==
    IF k = 0 THEN [rng |-> state, value |-> <<>>]
    ELSE LET next == RngStep(state)
             j == (next % Len(pool)) + 1
             moved == [pool EXCEPT ![j] = pool[Len(pool)]]
             rest == Select(next, SubSeq(moved, 1, Len(pool) - 1), k - 1)
         IN [rng |-> rest.rng, value |-> <<pool[j]>> \o rest.value]

\* random.sample(population, k) on the generator in `state`: what it does and
\* the state it leaves.
SampleFrom(state, n, k) ==
    IF k < 0 \/ k > n THEN [rng |-> state, drawn |-> Raise(ValueError)]
    ELSE LET selected == Select(state, [i \in 1..n |-> i], k)
         IN [rng |-> selected.rng, drawn |-> Return(selected.value)]

\* The endpoint's answers, fixed per instance: success throughout, or one
\* failing call.
ScriptOf(failing, outcome) ==
    [i \in 1..MaxPool |->
        IF i = failing THEN outcome
        ELSE IF i % 2 = 1
             THEN Return(<<Choice(<<" ", "Marie", " ", "Curie", "\n">>)>>)
             ELSE Return(<<Choice(<<"1945">>), Choice(<<" ", "Marie", " ", "Curie", "\n">>)>>)]

Scripts ==
    {ScriptOf(failing, outcome) :
        failing \in 0..MaxPool,
        outcome \in {Raise(APIError), Return(<<>>), Return(<<NoContent>>)}}

\* A process starts: the generator in a state of the platform's choosing.
InitSeed ==
    /\ dataset \in Pools
    /\ pc = "main"
    /\ rng \in 0..MaxEntropy
    /\ run = 1
    /\ script \in Scripts
    /\ log = [draws |-> <<>>, sent |-> <<>>]
    /\ first = None
    /\ idx = 0
    /\ messages = <<>>
    /\ instance_answer = None
    /\ answer = <<>>
    /\ predicted_answer = None
    /\ predicted_answers = <<>>
    /\ ground_truths = <<>>
    /\ calls = <<>>
    /\ error = None
    /\ table = None
    /\ num_of_shots = NumShots
    /\ example_shots = None
    /\ examples = None

\* A variant of Main without the random.seed call.
MainUnseeded ==
    /\ pc = "main"
    /\ pc' = "loop"
    /\ UNCHANGED <<dataset, idx, messages, instance_answer, answer, predicted_answer,
                   predicted_answers, ground_truths, calls, error, table, shots_vars,
                   seed_vars>>

\* __main__: random.seed(1234); pipeline() up to rag's loop.
Main ==
    /\ pc = "main"
    /\ rng' = Seed(1234)
    /\ pc' = "loop"
    /\ UNCHANGED <<dataset, idx, messages, instance_answer, answer, predicted_answer,
                   predicted_answers, ground_truths, calls, error, table, shots_vars,
                   run, script, log, first>>

\* generate_shots(dataset, 5) drawing from the generator.
SeededSample ==
    /\ pc = "shots"
    /\ LET sampled == SampleFrom(rng, Len(dataset), NumShots)
       IN /\ RagShots(sampled.drawn)
          /\ rng' = sampled.rng
          /\ log' = [log EXCEPT !.draws = Append(@, sampled.drawn)]
    /\ UNCHANGED <<run, script, first>>

\* The completion call, answered as the script has it for this instance.
ScriptedCreate ==
    /\ pc = "create"
    /\ RagCreate(script[idx])
    /\ log' = [log EXCEPT !.sent = Append(@, messages)]
    /\ UNCHANGED <<rng, run, script, first>>

\* What an execution leaves to be seen.
Observed ==
    [log |-> log,
     predicted_answers |-> predicted_answers,
     ground_truths |-> ground_truths,
     error |-> error,
     table |-> table]

\* The program is run again: a new process, the same pool, the same endpoint
\* answers.
Rerun ==
    /\ run = 1
    /\ pc \in {"done", "failed"}
    /\ first' = Observed
    /\ run' = 2
    /\ rng' \in 0..MaxEntropy
    /\ log' = [draws |-> <<>>, sent |-> <<>>]
    /\ pc' = "main"
    /\ idx' = 0
    /\ messages' = <<>>
    /\ instance_answer' = None
    /\ answer' = <<>>
    /\ predicted_answer' = None
    /\ predicted_answers' = <<>>
    /\ ground_truths' = <<>>
    /\ calls' = <<>>
    /\ error' = None
    /\ table' = None
    /\ UNCHANGED <<dataset, script, shots_vars>>

NextSeed ==
    \/ Main
    \/ RagNext
    \/ SeededSample
    \/ RagPrompt
    \/ ScriptedCreate
    \/ RagExtract
    \/ RagAppendPredicted
    \/ RagAppendGround
    \/ RagReturn
    \/ PrintResultTable
    \/ Rerun

SpecSeed == InitSeed /\ [][NextSeed]_vars

\* ================================================================ claims
N == Len(dataset)

\* The positions a sample holds.
Drawn(sample) == {sample[j] : j \in 1..Len(sample)}

\* generate_shots returned, having been asked for a count the pool can give.
ReturnedValid ==
    /\ pc = "returned"
    /\ 0 <= num_of_shots
    /\ num_of_shots <= N

\* C2: generate_shots asked for k exemplars with 0 <= k <= |pool| returns
\* exactly 2k messages, k user-then-assistant pairs, whenever each sampled
\* instance has a candidate answer (so for every pool of the data model's
\* instances); with k = 0 it returns the empty list.
C2_ExemplarCount ==
    ReturnedValid =>
        /\ example_shots.raised = None
        /\ (\A p \in Drawn(example_shots.value) : Len(dataset[p].answers) > 0) =>
               /\ examples.raised = None
               /\ Len(examples.value) = 2 * num_of_shots
               /\ \A j \in 1..num_of_shots :
                      /\ examples.value[2 * j - 1].role = "user"
                      /\ examples.value[2 * j].role = "assistant"
               /\ num_of_shots = 0 => examples.value = <<>>

\* Three exemplars were drawn from a pool of four.
C2_Witness ==
    /\ ReturnedValid
    /\ N = 4
    /\ num_of_shots = 3
    /\ examples.raised = None
    /\ Len(examples.value) = 6

\* C3: generate_shots asked for more exemplars than the pool holds ends in
\* random.sample's ValueError and returns no message.
C3_SamplingBound ==
    (pc = "returned" /\ num_of_shots > N) =>
        /\ example_shots = Raise(ValueError)
        /\ examples = Raise(ValueError)

\* Three exemplars were asked of a pool of two.
C3_Witness ==
    /\ pc = "returned"
    /\ N = 2
    /\ num_of_shots = 3
    /\ examples.raised = ValueError

Completion(j) == strip(calls[j].outcome.value[1].content)

\* The j-th call returned a response whose first choice has content.
Completed(j) ==
    /\ calls[j].outcome.raised = None
    /\ Len(calls[j].outcome.value) > 0
    /\ ~calls[j].outcome.value[1].is_none

\* `messages` is what the endpoint is about to be given, or was given, for the
\* current instance.
AtEndpoint ==
    \/ pc \in {"create", "extract", "append_predicted", "append_ground"}
    \/ pc = "failed" /\ Len(calls) > 0 /\ calls[Len(calls)].target = idx

\* system first, then user/assistant pairs, then the target's user message.
WellFormed(ms, target) ==
    /\ Len(ms) >= 2
    /\ ms[1] = [role |-> "system", content |-> system_prompt]
    /\ ms[Len(ms)] = [role |-> "user",
                      content |-> generate_prompt(target.question, Join(target.hints))]
    /\ Len(ms) % 2 = 0
    /\ \A j \in 2..(Len(ms) - 1) :
           ms[j].role = IF j % 2 = 0 THEN "user" ELSE "assistant"

\* C1: every message sequence rag gives the completion endpoint starts with the
\* system message, ends with the target instance's user message, and holds
\* only user-then-assistant exemplar pairs in between.
C1_MessageOrder == AtEndpoint => WellFormed(messages, dataset[idx])

\* A call was made for the second instance with all five exemplar pairs.
C1_Witness ==
    /\ pc = "extract"
    /\ idx = 2
    /\ Len(messages) = 2 + 2 * NumShots
    /\ messages[2].role = "user"
    /\ messages[3].role = "assistant"

\* C4: when rag returns over a pool of N instances, both lists have length N,
\* ground truth i is the first candidate answer of pool instance i, and
\* prediction i is the trimmed first choice of the completion obtained by the
\* call made for pool instance i.
C4_OrderCorrespondence ==
    pc \in {"print", "done"} =>
        /\ Len(predicted_answers) = N
        /\ Len(ground_truths) = N
        /\ Len(calls) = N
        /\ \A i \in 1..N :
               /\ ground_truths[i] = dataset[i].answers[1]
               /\ calls[i].target = i
               /\ Completed(i)
               /\ predicted_answers[i] = Completion(i)

\* A run over a full pool returned, with two different predictions, one of them
\* trimmed from a response that has a second choice.
C4_Witness ==
    /\ pc = "done"
    /\ N >= NumShots
    /\ predicted_answers[1] = "Marie Curie"
    /\ predicted_answers[2] = "1945"
    /\ Len(calls[2].outcome.value) = 2

ScenarioPool == <<InstanceA, InstanceB>>

C6_FailFast ==
    /\ \A j \in 1..Len(calls) : calls[j].target = j
    /\ Len(calls) \in {idx - 1, idx}
    /\ \A j \in 1..(Len(calls) - 1) : Completed(j)
    /\ Len(ground_truths) >= idx - 1
    /\ error # None <=> pc = "failed"
    /\ pc = "failed" => ~ENABLED Next /\ table = None

\* The endpoint failed on the third instance, with later instances unvisited.
C6_Witness ==
    /\ pc = "failed"
    /\ error = APIError
    /\ idx = 3
    /\ idx < N
    /\ Len(calls) = 3

\* Instances whose processing completed.
Processed == IF pc \in {"loop", "print", "done"} THEN idx ELSE idx - 1

\* C7: in every state the number of records (pairs of the two lists) is the
\* number of instances processed to completion; the two lists have the same
\* length at every iteration boundary and when a failure ends the run; record j
\* is that of the j-th instance of the pool.
C7_RecordCount ==
    /\ Len(zip(predicted_answers, ground_truths)) = Processed
    /\ pc \in {"loop", "shots", "print", "done", "failed"} =>
           Len(predicted_answers) = Len(ground_truths)
    /\ \A j \in 1..Len(ground_truths) : ground_truths[j] = dataset[j].answers[1]
    /\ \A j \in 1..Len(predicted_answers) :
           calls[j].target = j /\ predicted_answers[j] = Completion(j)

\* A failure ended the run after three instances were recorded.
C7_Witness ==
    /\ pc = "failed"
    /\ idx = 4
    /\ Len(predicted_answers) = 3
    /\ Len(ground_truths) = 3

\* C8: the table print_result_table prints has one row per record, in list
\* order, row i holding prediction i and ground truth i as they are.
C8_ReporterFidelity ==
    pc = "done" =>
        /\ table.field_names = <<"Predicted", "Ground Truth">>
        /\ Len(table.rows) = Len(predicted_answers)
        /\ Len(table.rows) = Len(ground_truths)
        /\ \A i \in 1..Len(table.rows) :
               table.rows[i] = <<predicted_answers[i], ground_truths[i]>>

\* A table of a full pool's records was printed.
C8_Witness ==
    /\ pc = "done"
    /\ Len(table.rows) >= NumShots
    /\ table.rows[1] = <<"1945", "Paris">>

\* Is `a` an initial part of `b`?
IsPrefix(a, b) == Len(a) <= Len(b) /\ a = SubSeq(b, 1, Len(a))

\* C9: with random.seed(1234) at program start, a second execution over the
\* same pool and with the same endpoint answers draws, at every step, the
\* samples the first drew, in the same order, and sends the message sequences
\* the first sent; when it ends it has drawn and sent all the first did and
\* has the same records, the same table and the same error.
C9_Reproducible ==
    run = 2 =>
        /\ IsPrefix(log.draws, first.log.draws)
        /\ IsPrefix(log.sent, first.log.sent)
        /\ pc \in {"done", "failed"} => Observed = first

\* A second execution over a full pool ended after answering every instance.
C9_Witness ==
    /\ run = 2
    /\ pc = "done"
    /\ Len(log.draws) >= NumShots
    /\ Len(log.sent) >= NumShots
    /\ log.draws[1] # log.draws[2]

\* How far the run is: the instances begun, then the statement reached.
Progress ==
    CASE pc = "shots" -> 7 * idx
      [] pc = "prompt" -> 7 * idx + 1
      [] pc = "create" -> 7 * idx + 2
      [] pc = "extract" -> 7 * idx + 3
      [] pc = "append_predicted" -> 7 * idx + 4
      [] pc = "append_ground" -> 7 * idx + 5
      [] pc = "loop" -> 7 * idx + 6
      [] pc = "print" -> 7 * N + 7
      [] pc = "done" -> 7 * N + 8
      [] OTHER -> 7 * N + 9

\* Calls are made for instances 1, 2, ... in pool order, one each; at most one
\* call is not yet followed by its record; the run never stops before its end.
SequentialState ==
    /\ idx \in 0..N
    /\ \A j \in 1..Len(calls) : calls[j].target = j
    /\ Len(calls) \in {idx - 1, idx}
    /\ Len(calls) - Len(ground_truths) \in {0, 1}
    /\ pc \in {"shots", "prompt", "create"} => Len(calls) = idx - 1
    /\ pc \in {"extract", "append_predicted", "append_ground"} =>
           /\ Len(calls) = idx
           /\ Len(ground_truths) = idx - 1
    /\ pc \in {"print", "done"} => idx = N /\ Len(calls) = N
    /\ pc \notin {"done", "failed"} => ENABLED Next

\* An instance is begun only from the loop head, with the call and both
\* appends of the one before it done; every step moves the run forward.
SequentialStep ==
    /\ idx' # idx =>
           /\ pc = "loop"
           /\ idx' = idx + 1
           /\ Len(calls) = idx
           /\ Len(predicted_answers) = idx
           /\ Len(ground_truths) = idx
    /\ Len(calls') \in {Len(calls), Len(calls) + 1}
    /\ Progress' > Progress

\* C11: rag is strictly sequential.  Instances are visited in pool order, one
\* completion call each and never two in progress; the sampling, the call and
\* the appends of an instance are all done before the next instance is begun;
\* every step moves the run forward through a bounded progress measure, so it
\* ends, and a run without failure ends after exactly |pool| calls.
C11_Sequential == []SequentialState /\ [][SequentialStep]_vars

\* A run over a full pool returned after one call per instance.
C11_Witness ==
    /\ pc = "print"
    /\ N >= NumShots
    /\ Len(calls) = N
    /\ calls[N].target = N

\* The hints of an instance joined by newline, in hint-list order, written
\* out for the hint lists the pools hold (none, one or two hints).
ContextOf(instance) ==
    IF Len(instance.hints) = 0 THEN ""
    ELSE IF Len(instance.hints) = 1 THEN instance.hints[1]
    ELSE instance.hints[1] \o "\n" \o instance.hints[2]

\* The prompt template filled with an instance's own context and question.
PromptOf(instance) ==
    "Based on the context, answer the following question:\n    Context:\n    "
        \o ContextOf(instance)
        \o "\n\n    Question:\n    "
        \o instance.question
        \o "\n\n    Answer:\n    "

\* C12: in what generate_shots returns, the j-th pair is that of the j-th
\* drawn instance alone: its user message is the prompt of that instance's
\* question and of its hints joined by newline in order (empty when it has
\* none), its assistant message is that instance's first candidate answer as
\* it is; pairs are in draw order.
C12_PairPerDraw ==
    (pc = "returned" /\ examples.raised = None) =>
        /\ example_shots.raised = None
        /\ Len(examples.value) = 2 * Len(example_shots.value)
        /\ \A j \in 1..Len(example_shots.value) :
               LET example == dataset[example_shots.value[j]]
               IN /\ Len(example.hints) <= 2
                  /\ examples.value[2 * j - 1] =
                         [role |-> "user", content |-> PromptOf(example)]
                  /\ examples.value[2 * j] =
                         [role |-> "assistant", content |-> example.answers[1]]

\* The later of two different instances was drawn first: one with two hints
\* and two candidate answers, then one with no hint.
C12_Witness ==
    /\ pc = "returned"
    /\ examples.raised = None
    /\ N = 2
    /\ dataset[1] = InstanceB
    /\ dataset[2] = InstanceAt(3)
    /\ example_shots.value = <<2, 1>>
    /\ examples.value[2].content = "Answer 3"
    /\ examples.value[4].content = "1945"

\* The run failed before the message sequence of the current instance was
\* complete: in generate_shots or at the target's answers[0].
LocalFailure ==
    /\ pc = "failed"
    /\ Len(messages) < 2 + 2 * NumShots

\* Before the call of an iteration: no call for the current instance yet, and
\* at the call the exemplars are all rendered and the target's first answer is
\* held; a local failure leaves the current instance without a call.
BeforeTheCall ==
    /\ pc \in {"shots", "prompt", "create"} => Len(calls) = idx - 1
    /\ pc = "create" =>
           /\ Len(messages) = 2 + 2 * NumShots
           /\ Len(dataset[idx].answers) > 0
           /\ instance_answer = dataset[idx].answers[1]
    /\ LocalFailure =>
           /\ error \in {ValueError, IndexError}
           /\ Len(calls) = idx - 1
           /\ Len(predicted_answers) = idx - 1
           /\ Len(ground_truths) = idx - 1
    /\ (pc = "failed" /\ ~LocalFailure) => Len(calls) = idx

====
